---------------------------- MODULE Spec2Model ----------------------------
(***************************************************************************)
(* A state-machine model of reicore/rei_sort.hpp: the monotonicity         *)
(* scanner, binary insertion sort, median-of-three, the three-way          *)
(* partition, heapsort, the iterative introsort driver, the entry point    *)
(* rei_sort / rei_sort_impl and the key-projected rei_sort_by_key.         *)
(*                                                                         *)
(* Positions are 0-based offsets from the iterator `first` of the range,   *)
(* as in the source; TLA+ sequences are 1-based, so position p of a        *)
(* sequence s is s[p + 1] (operator At).  An element is a pair             *)
(* <<key, id>>: the ordering looks at the key only, the id tells apart     *)
(* elements that are equivalent under the ordering.  A slot (or a local)   *)
(* whose element was moved out with std::move holds Moved.                 *)
(*                                                                         *)
(* Every invocation of the ordering predicate is a step of its own (the    *)
(* labels in CmpLabels), so that a failing predicate can be modelled at    *)
(* each invocation (action Throw).                                         *)
(***************************************************************************)
EXTENDS Integers, Sequences, FiniteSets, TLC

\* ------------------------------------------------------------------------
\* Program constants (rei_sort.hpp:33, :37)
INSERTION_THRESHOLD == 20

INTROSORT_DEPTH_FACTOR == 2

\* ------------------------------------------------------------------------
\* Bounds of the model
\* Lengths 0..MaxLen are enumerated exhaustively over keys 1..MaxKey.
MaxLen == 4

MaxKey == 4

\* Patterned inputs have the lengths m * INSERTION_THRESHOLD + d, for m in
\* 1..BigMul and d in 1..BigSpan: the lengths the introsort driver is run on.
BigMul == 3

BigSpan == 1

\* ------------------------------------------------------------------------
\* Values
Moved == <<0, 0>>

At(s, p) == s[p + 1]

Put(s, p, v) == [s EXCEPT ![p + 1] = v]

\* std::iter_swap(first + p, first + q)
IterSwap(s, p, q) == [s EXCEPT ![p + 1] = s[q + 1], ![q + 1] = s[p + 1]]

\* std::reverse(first, last) on the whole range
Reverse(s) == [k \in 1..Len(s) |-> s[Len(s) + 1 - k]]

\* A bug: std::move_backward(pos + 1, i, i + 1), which leaves the element of
\* slot pos where the value is then written.
MoveBackward_Short(s, pos, i) ==
  [k \in 1..Len(s) |->
     IF pos + 2 < k /\ k <= i + 1 THEN s[k - 1]
     ELSE IF k = pos + 2 /\ pos + 1 < i THEN Moved
     ELSE s[k]]

\* std::move_backward(first + pos, first + i, first + i + 1): the elements of
\* [pos, i) move one slot to the right; slot pos is left moved-from.
MoveBackward(s, pos, i) ==
  [k \in 1..Len(s) |->
     IF pos + 1 < k /\ k <= i + 1 THEN s[k - 1]
     ELSE IF k = pos + 1 /\ pos < i THEN Moved
     ELSE s[k]]

\* The key projection handed to rei_sort_by_key (the caller's key_func).
KeyFunc(e) == e[1]

\* static_cast<int>(std::ceil(std::log2(n))) for n >= 1
CeilLog2(n) == CHOOSE k \in 0..16 : 2^k >= n /\ (k = 0 \/ 2^(k - 1) < n)

MaxDepth(n) == INTROSORT_DEPTH_FACTOR * CeilLog2(n)

\* ------------------------------------------------------------------------
\* State
VARIABLES
  call,           \* the entry point that was called
  ord,            \* the ordering handed to it
  detect_sorted,  \* rei_sort's parameter
  a,              \* the range the engine sorts (a by-key call: `decorated`)
  range,          \* rei_sort_by_key: the caller's range
  a0,             \* the caller's range at entry
  pc,             \* position in the code
  ret,            \* return positions of the calls in progress
  stack,          \* introsort_iterative: the work stack
  sc,             \* scan_sorted_and_reverse: it, is_sorted, is_reverse
  ins,            \* insertion_sort: first, last, i, value, and upper_bound's first, len
  med,            \* median_of_three: a, b, c and the result; calls counts its
                  \* invocations of comp
  part,           \* partition_3way: first, last, pivot, lt, gt, i
  sift,           \* sift_down: first, last, root_idx, child_idx
  heap,           \* heapify / heapsort_range: first, last, i, end
  intro,          \* introsort_iterative: lo, hi, depth_limit, max_depth
  key,            \* rei_sort_by_key: idx, i, current, target_val; moves counts
                  \* the element moves of the undecoration
  keyCalls,       \* how often key_func was invoked on each position
  home0,          \* rei_sort_by_key: the home indices when the undecoration starts
  py              \* the Python wrapper (reicore.cpp): whether the thread holds the
                  \* GIL, the kind of comparator it hands to the sort, and how far
                  \* the invocation of that comparator has got

vars == <<call, ord, detect_sorted, a, range, a0, pc, ret, stack, sc, ins, med,
          part, sift, heap, intro, key, keyCalls, home0, py>>

\* The key ordering handed to the sort: std::less<> (the default) or
\* std::greater<>.
Orderings == {"less", "greater"}

\* Predicates that are no strict weak ordering: <=, != and `true` hold of
\* (x, x); x beats y when y - x is 1 modulo 3 is not transitive.
AnyPredicates == {"leq", "neq", "always", "cyclic"}

Comp(x, y) ==
  CASE ord = "less" -> x < y
    [] ord = "greater" -> y < x
    [] ord = "leq" -> x <= y
    [] ord = "neq" -> x # y
    [] ord = "always" -> TRUE
    [] ord = "cyclic" -> (y - x) % 3 = 1

\* The ordering on elements: compares the keys (for rei_sort_by_key this is
\* the lambda comp(a.first, b.first) of rei_sort.hpp:413-415).
Less(x, y) == Comp(x[1], y[1])

\* ------------------------------------------------------------------------
\* Inputs
Elems(keys) == [k \in 1..Len(keys) |-> <<keys[k], k - 1>>]

\* rei_sort_by_key's elements carry a payload the decorated records do not.
Payload(keys) == [k \in 1..Len(keys) |-> <<keys[k], 100 + k - 1>>]

SmallKeys == UNION {[1..n -> 1..MaxKey] : n \in 0..MaxLen}

Min(x, y) == IF x < y THEN x ELSE y

\* The input shapes of the tests (test.cpp) at the lengths of the introsort
\* driver: n keys with (at most) k distinct values.
Pattern(shape, n, k) ==
  [i \in 1..n |->
     1 + CASE shape = "sorted"   -> ((i - 1) * k) \div n
           [] shape = "reverse"  -> ((n - i) * k) \div n
           [] shape = "sawtooth" -> (i - 1) % k
           [] shape = "organ"    -> (Min(i - 1, n - i) * k) \div n
           [] shape = "scramble" -> ((i * i * 7 + i * 3) % 31) % k
           [] shape = "outlier"  -> IF i = k THEN 1 ELSE 0]

Shapes == {"sorted", "reverse", "sawtooth", "organ", "scramble", "outlier"}

BigLens == {m * INSERTION_THRESHOLD + d : m \in 1..BigMul, d \in 1..BigSpan}

BigKeys == {Pattern(sh, n, k) : sh \in Shapes, n \in BigLens, k \in {2, 5, 97}}

\* 45 keys on which every one of the 2 * ceil(log2 45) = 12 partitions of the
\* introsort driver takes only the pivot and one more element off the range:
\* the depth budget runs out on a range of 21.
KillerKeys ==
  <<1, 36, 29, 3, 35, 17, 5, 34, 44, 7, 33, 27, 9, 32, 21, 11, 31, 39, 13, 30,
    25, 15, 2, 45, 4, 28, 6, 19, 8, 41, 10, 26, 12, 23, 14, 37, 16, 43, 18, 42,
    20, 40, 22, 38, 24>>

\* 60 keys on which every partition splits off the pivot and exactly two
\* smaller elements, which the driver pushes as a frame: a frame is pushed at
\* every one of the 2 * ceil(log2 60) = 12 partitions the depth budget allows.
StackKillerKeys ==
  <<1, 2, 39, 54, 4, 5, 48, 25, 7, 8, 42, 59, 10, 11, 50, 29, 13, 14, 51, 31,
    16, 17, 52, 57, 19, 20, 53, 35, 22, 23, 3, 44, 6, 26, 55, 9, 28, 12, 56, 40,
    15, 32, 18, 49, 34, 21, 58, 24, 37, 38, 27, 47, 30, 41, 60, 33, 43, 36, 45,
    46>>

SortKeys == SmallKeys \cup BigKeys \cup {KillerKeys, StackKillerKeys}

scInit == [it |-> 0, is_sorted |-> TRUE, is_reverse |-> TRUE]

insInit == [first |-> 0, last |-> 0, i |-> 0, value |-> Moved,
            ub_first |-> 0, ub_len |-> 0]

medInit == [a |-> 0, b |-> 0, c |-> 0, result |-> 0, calls |-> 0]

partInit == [first |-> 0, last |-> 0, pivot |-> Moved, lt |-> 0, gt |-> 0, i |-> 0]

siftInit == [first |-> 0, last |-> 0, root_idx |-> 0, child_idx |-> 0]

heapInit == [first |-> 0, last |-> 0, i |-> 0, end |-> 0]

introInit == [lo |-> 0, hi |-> 0, depth_limit |-> 0, max_depth |-> 0]

\* No Python in sight: the comparator is plain C++ (std::less<T>, std::greater<T>).
pyInit == [gil |-> TRUE, saved |-> TRUE, cmp |-> "native", phase |-> "idle",
           etype |-> "int", i |-> 0, cmps |-> 0]

keyInit == [idx |-> 0, i |-> 0, current |-> 0, target_val |-> Moved, moves |-> 0]

Locals0 ==
  /\ py = pyInit
  /\ ret = <<"done">>
  /\ stack = <<>>
  /\ sc = scInit
  /\ ins = insInit
  /\ med = medInit
  /\ part = partInit
  /\ sift = siftInit
  /\ heap = heapInit
  /\ intro = introInit
  /\ key = keyInit

\* rei_sort(first, last, comp, detect_sorted)
InitSort ==
  /\ call = "rei_sort"
  /\ ord \in Orderings
  /\ detect_sorted \in BOOLEAN
  /\ \E keys \in SortKeys : a = Elems(keys)
  /\ range = <<>>
  /\ a0 = a
  /\ keyCalls = <<>>
  /\ home0 = <<>>
  /\ pc = "impl_entry"
  /\ Locals0

\* rei_sort_by_key(first, last, key_func, comp)
InitSortByKey ==
  /\ call = "rei_sort_by_key"
  /\ ord \in Orderings
  /\ detect_sorted = TRUE
  /\ a = <<>>
  /\ \E keys \in SortKeys : range = Payload(keys)
  /\ a0 = range
  /\ keyCalls = [k \in 1..Len(range) |-> 0]
  /\ home0 = <<>>
  /\ pc = "key_entry"
  /\ Locals0

\* scan_sorted_and_reverse(first, last, comp)
InitScan ==
  /\ call = "scan_sorted_and_reverse"
  /\ ord \in Orderings
  /\ detect_sorted = FALSE
  /\ \E keys \in SmallKeys : a = Elems(keys)
  /\ range = <<>>
  /\ a0 = a
  /\ keyCalls = <<>>
  /\ home0 = <<>>
  /\ pc = "scan_entry"
  /\ Locals0

Init == InitSort \/ InitSortByKey \/ InitScan

\* ------------------------------------------------------------------------
\* Calls and returns
Return ==
  /\ pc' = Head(ret)
  /\ ret' = Tail(ret)

Goto(l) ==
  /\ pc' = l
  /\ ret' = ret

CallTo(l, back) ==
  /\ pc' = l
  /\ ret' = <<back>> \o ret

\* comp(x, y) is evaluated. A comparator written in C++ is evaluated on the
\* spot; one that calls into Python (reicore.cpp:61-63, 96-99) has run its body
\* and returned, and is ready to be invoked again.
CmpCall ==
  /\ py.cmp # "native" => py.phase = "returned"
  /\ py' = [py EXCEPT !.phase = "idle"]

\* ------------------------------------------------------------------------
\* scan_sorted_and_reverse (rei_sort.hpp:53-78); the range is the whole of a
ScanEntry ==
  /\ pc = "scan_entry"
  /\ sc' = scInit
  /\ IF Len(a) <= 1 THEN Return ELSE Goto("scan_cmp1")
  /\ UNCHANGED <<call, ord, detect_sorted, py, a, range, a0, stack, ins, med, part,
                 sift, heap, intro, key, keyCalls, home0>>

\* if (comp(*next_it, *it)) is_sorted = false;
ScanCmp1 ==
  /\ pc = "scan_cmp1"
  /\ sc' = [sc EXCEPT !.is_sorted =
              IF Less(At(a, sc.it + 1), At(a, sc.it)) THEN FALSE ELSE @]
  /\ Goto("scan_cmp2")
  /\ CmpCall
  /\ UNCHANGED <<call, ord, detect_sorted, a, range, a0, stack, ins, med, part,
                 sift, heap, intro, key, keyCalls, home0>>

\* A bug: the early exit taken when either flag is cleared (|| for &&).
ScanCmp2_Or ==
  /\ pc = "scan_cmp2"
  /\ LET rev == IF Less(At(a, sc.it), At(a, sc.it + 1)) THEN FALSE
                ELSE sc.is_reverse
     IN  IF ~sc.is_sorted \/ ~rev
         THEN /\ sc' = [sc EXCEPT !.is_reverse = rev]
              /\ Return
         ELSE /\ sc' = [sc EXCEPT !.is_reverse = rev, !.it = @ + 1]
              /\ IF sc.it + 2 = Len(a) THEN Return ELSE Goto("scan_cmp1")
  /\ CmpCall
  /\ UNCHANGED <<call, ord, detect_sorted, a, range, a0, stack, ins, med, part,
                 sift, heap, intro, key, keyCalls, home0>>

\* if (comp(*it, *next_it)) is_reverse = false; the early exit; ++it
ScanCmp2 ==
  /\ pc = "scan_cmp2"
  /\ LET rev == IF Less(At(a, sc.it), At(a, sc.it + 1)) THEN FALSE
                ELSE sc.is_reverse
     IN  IF ~sc.is_sorted /\ ~rev
         THEN /\ sc' = [sc EXCEPT !.is_reverse = rev]
              /\ Return
         ELSE /\ sc' = [sc EXCEPT !.is_reverse = rev, !.it = @ + 1]
              /\ IF sc.it + 2 = Len(a) THEN Return ELSE Goto("scan_cmp1")
  /\ CmpCall
  /\ UNCHANGED <<call, ord, detect_sorted, a, range, a0, stack, ins, med, part,
                 sift, heap, intro, key, keyCalls, home0>>

\* ------------------------------------------------------------------------
\* insertion_sort (rei_sort.hpp:95-112) with std::upper_bound
InsEntry ==
  /\ pc = "ins_entry"
  /\ IF ins.first = ins.last
     THEN /\ Return
          /\ ins' = ins
     ELSE /\ Goto("ins_loop")
          /\ ins' = [ins EXCEPT !.i = ins.first + 1]
  /\ UNCHANGED <<call, ord, detect_sorted, py, a, range, a0, stack, sc, med, part,
                 sift, heap, intro, key, keyCalls, home0>>

\* A bug: the binary search runs on [first, i], the vacated slot i included.
InsLoop_SearchHole ==
  /\ pc = "ins_loop"
  /\ IF ins.i = ins.last
     THEN /\ Return
          /\ UNCHANGED <<a, ins>>
     ELSE /\ ins' = [ins EXCEPT !.value = At(a, ins.i),
                                !.ub_first = ins.first,
                                !.ub_len = ins.i - ins.first + 1]
          /\ a' = Put(a, ins.i, Moved)
          /\ Goto("ins_ub_cmp")
  /\ UNCHANGED <<call, ord, detect_sorted, py, range, a0, stack, sc, med, part,
                 sift, heap, intro, key, keyCalls, home0>>

\* for (...; i != last; ...) { auto value = std::move(*i); upper_bound's setup
InsLoop ==
  /\ pc = "ins_loop"
  /\ IF ins.i = ins.last
     THEN /\ Return
          /\ UNCHANGED <<a, ins>>
     ELSE /\ ins' = [ins EXCEPT !.value = At(a, ins.i),
                                !.ub_first = ins.first,
                                !.ub_len = ins.i - ins.first]
          /\ a' = Put(a, ins.i, Moved)
          /\ Goto("ins_ub_cmp")
  /\ UNCHANGED <<call, ord, detect_sorted, py, range, a0, stack, sc, med, part,
                 sift, heap, intro, key, keyCalls, home0>>

\* A bug: std::lower_bound in place of std::upper_bound, comp(*middle, value).
InsUbCmp_LowerBound ==
  /\ pc = "ins_ub_cmp"
  /\ LET half == ins.ub_len \div 2
         middle == ins.ub_first + half
         f == IF Less(At(a, middle), ins.value) THEN middle + 1 ELSE ins.ub_first
         l == IF Less(At(a, middle), ins.value) THEN ins.ub_len - half - 1
              ELSE half
     IN  /\ ins' = [ins EXCEPT !.ub_first = f, !.ub_len = l]
         /\ IF l > 0 THEN Goto("ins_ub_cmp") ELSE Goto("ins_place")
  /\ CmpCall
  /\ UNCHANGED <<call, ord, detect_sorted, a, range, a0, stack, sc, med, part,
                 sift, heap, intro, key, keyCalls, home0>>

\* std::upper_bound: one round of while (len > 0) with comp(value, *middle)
InsUbCmp ==
  /\ pc = "ins_ub_cmp"
  /\ LET half == ins.ub_len \div 2
         middle == ins.ub_first + half
         f == IF Less(ins.value, At(a, middle)) THEN ins.ub_first ELSE middle + 1
         l == IF Less(ins.value, At(a, middle)) THEN half
              ELSE ins.ub_len - half - 1
     IN  /\ ins' = [ins EXCEPT !.ub_first = f, !.ub_len = l]
         /\ IF l > 0 THEN Goto("ins_ub_cmp") ELSE Goto("ins_place")
  /\ CmpCall
  /\ UNCHANGED <<call, ord, detect_sorted, a, range, a0, stack, sc, med, part,
                 sift, heap, intro, key, keyCalls, home0>>

\* std::move_backward(pos, i, std::next(i)); *pos = std::move(value); ++i
InsPlace ==
  /\ pc = "ins_place"
  /\ a' = Put(MoveBackward(a, ins.ub_first, ins.i), ins.ub_first, ins.value)
  /\ ins' = [ins EXCEPT !.value = Moved, !.i = @ + 1]
  /\ Goto("ins_loop")
  /\ UNCHANGED <<call, ord, detect_sorted, py, range, a0, stack, sc, med, part,
                 sift, heap, intro, key, keyCalls, home0>>

\* ------------------------------------------------------------------------
\* median_of_three (rei_sort.hpp:118-130): positions med.a, med.b, med.c
MedAB ==
  /\ pc = "med_ab_cmp"
  /\ IF Less(At(a, med.a), At(a, med.b)) THEN Goto("med_bc_cmp")
     ELSE Goto("med_cb_cmp")
  /\ med' = [med EXCEPT !.calls = @ + 1]
  /\ CmpCall
  /\ UNCHANGED <<call, ord, detect_sorted, a, range, a0, stack, sc, ins, part,
                 sift, heap, intro, key, keyCalls, home0>>

\* if (comp(*b, *c)) return b;
MedBC ==
  /\ pc = "med_bc_cmp"
  /\ IF Less(At(a, med.b), At(a, med.c))
     THEN /\ med' = [med EXCEPT !.result = med.b, !.calls = @ + 1]
          /\ Return
     ELSE /\ med' = [med EXCEPT !.calls = @ + 1]
          /\ Goto("med_ac_cmp")
  /\ CmpCall
  /\ UNCHANGED <<call, ord, detect_sorted, a, range, a0, stack, sc, ins, part,
                 sift, heap, intro, key, keyCalls, home0>>

\* A bug: the two results are the wrong way round (return a; ... return c;).
MedAC_Swapped ==
  /\ pc = "med_ac_cmp"
  /\ med' = [med EXCEPT !.result =
               IF Less(At(a, med.a), At(a, med.c)) THEN med.a ELSE med.c,
                        !.calls = @ + 1]
  /\ Return
  /\ CmpCall
  /\ UNCHANGED <<call, ord, detect_sorted, a, range, a0, stack, sc, ins, part,
                 sift, heap, intro, key, keyCalls, home0>>

\* if (comp(*a, *c)) return c; return a;
MedAC ==
  /\ pc = "med_ac_cmp"
  /\ med' = [med EXCEPT !.result =
               IF Less(At(a, med.a), At(a, med.c)) THEN med.c ELSE med.a,
                        !.calls = @ + 1]
  /\ Return
  /\ CmpCall
  /\ UNCHANGED <<call, ord, detect_sorted, a, range, a0, stack, sc, ins, part,
                 sift, heap, intro, key, keyCalls, home0>>

\* if (comp(*c, *b)) return b;
MedCB ==
  /\ pc = "med_cb_cmp"
  /\ IF Less(At(a, med.c), At(a, med.b))
     THEN /\ med' = [med EXCEPT !.result = med.b, !.calls = @ + 1]
          /\ Return
     ELSE /\ med' = [med EXCEPT !.calls = @ + 1]
          /\ Goto("med_ca_cmp")
  /\ CmpCall
  /\ UNCHANGED <<call, ord, detect_sorted, a, range, a0, stack, sc, ins, part,
                 sift, heap, intro, key, keyCalls, home0>>

\* if (comp(*c, *a)) return c; return a;
MedCA ==
  /\ pc = "med_ca_cmp"
  /\ med' = [med EXCEPT !.result =
               IF Less(At(a, med.c), At(a, med.a)) THEN med.c ELSE med.a,
                        !.calls = @ + 1]
  /\ Return
  /\ CmpCall
  /\ UNCHANGED <<call, ord, detect_sorted, a, range, a0, stack, sc, ins, part,
                 sift, heap, intro, key, keyCalls, home0>>

\* ------------------------------------------------------------------------
\* partition_3way (rei_sort.hpp:137-171); the result is (part.lt, part.gt + 1)
PartEntry ==
  /\ pc = "part_entry"
  /\ IF part.first = part.last
     THEN /\ part' = [part EXCEPT !.lt = part.first, !.gt = part.first - 1]
          /\ med' = med
          /\ Return
     ELSE /\ part' = part
          /\ med' = [med EXCEPT !.a = part.first,
                                !.b = part.first + (part.last - part.first) \div 2,
                                !.c = part.last - 1,
                                !.calls = 0]
          /\ CallTo("med_ab_cmp", "part_pivot")
  /\ UNCHANGED <<call, ord, detect_sorted, py, a, range, a0, stack, sc, ins,
                 sift, heap, intro, key, keyCalls, home0>>

\* while (i <= gt)
PartLoop(i, gt) == IF i <= gt THEN Goto("part_cmp1") ELSE Return

\* std::iter_swap(first, pivot_it); auto pivot = *first; the three cursors
PartPivot ==
  /\ pc = "part_pivot"
  /\ a' = IterSwap(a, part.first, med.result)
  /\ part' = [part EXCEPT !.pivot = At(a', part.first),
                          !.lt = part.first,
                          !.gt = part.last - 1,
                          !.i = part.first + 1]
  /\ PartLoop(part.first + 1, part.last - 1)
  /\ UNCHANGED <<call, ord, detect_sorted, py, range, a0, stack, sc, ins, med,
                 sift, heap, intro, key, keyCalls, home0>>

\* A bug: std::iter_swap(lt, i) forgotten.
PartCmp1_NoSwap ==
  /\ pc = "part_cmp1"
  /\ IF Less(At(a, part.i), part.pivot)
     THEN /\ a' = a
          /\ part' = [part EXCEPT !.lt = @ + 1, !.i = @ + 1]
          /\ PartLoop(part.i + 1, part.gt)
     ELSE /\ a' = a
          /\ part' = part
          /\ Goto("part_cmp2")
  /\ CmpCall
  /\ UNCHANGED <<call, ord, detect_sorted, range, a0, stack, sc, ins, med,
                 sift, heap, intro, key, keyCalls, home0>>

\* A bug: ++i forgotten after the swap; the element swapped into i is then
\* examined once more.
PartCmp1_NoAdvance ==
  /\ pc = "part_cmp1"
  /\ IF Less(At(a, part.i), part.pivot)
     THEN /\ a' = IterSwap(a, part.lt, part.i)
          /\ part' = [part EXCEPT !.lt = @ + 1]
          /\ PartLoop(part.i, part.gt)
     ELSE /\ a' = a
          /\ part' = part
          /\ Goto("part_cmp2")
  /\ CmpCall
  /\ UNCHANGED <<call, ord, detect_sorted, range, a0, stack, sc, ins, med,
                 sift, heap, intro, key, keyCalls, home0>>

\* if (comp(*i, pivot)) { std::iter_swap(lt, i); ++lt; ++i; }
PartCmp1 ==
  /\ pc = "part_cmp1"
  /\ IF Less(At(a, part.i), part.pivot)
     THEN /\ a' = IterSwap(a, part.lt, part.i)
          /\ part' = [part EXCEPT !.lt = @ + 1, !.i = @ + 1]
          /\ PartLoop(part.i + 1, part.gt)
     ELSE /\ a' = a
          /\ part' = part
          /\ Goto("part_cmp2")
  /\ CmpCall
  /\ UNCHANGED <<call, ord, detect_sorted, range, a0, stack, sc, ins, med,
                 sift, heap, intro, key, keyCalls, home0>>

\* A bug: --gt forgotten after the swap.
PartCmp2_NoDec ==
  /\ pc = "part_cmp2"
  /\ IF Less(part.pivot, At(a, part.i))
     THEN /\ a' = IterSwap(a, part.i, part.gt)
          /\ part' = part
          /\ PartLoop(part.i, part.gt)
     ELSE /\ a' = a
          /\ part' = [part EXCEPT !.i = @ + 1]
          /\ PartLoop(part.i + 1, part.gt)
  /\ CmpCall
  /\ UNCHANGED <<call, ord, detect_sorted, range, a0, stack, sc, ins, med,
                 sift, heap, intro, key, keyCalls, home0>>

\* else if (comp(pivot, *i)) { std::iter_swap(i, gt); --gt; } else { ++i; }
PartCmp2 ==
  /\ pc = "part_cmp2"
  /\ IF Less(part.pivot, At(a, part.i))
     THEN /\ a' = IterSwap(a, part.i, part.gt)
          /\ part' = [part EXCEPT !.gt = @ - 1]
          /\ PartLoop(part.i, part.gt - 1)
     ELSE /\ a' = a
          /\ part' = [part EXCEPT !.i = @ + 1]
          /\ PartLoop(part.i + 1, part.gt)
  /\ CmpCall
  /\ UNCHANGED <<call, ord, detect_sorted, range, a0, stack, sc, ins, med,
                 sift, heap, intro, key, keyCalls, home0>>

\* ------------------------------------------------------------------------
\* sift_down (rei_sort.hpp:177-200): the heap is [sift.first, sift.last)
SiftLoop ==
  /\ pc = "sift_loop"
  /\ LET size == sift.last - sift.first
         child_idx == 2 * sift.root_idx + 1
     IN  IF child_idx < size
         THEN /\ sift' = [sift EXCEPT !.child_idx = child_idx]
              /\ IF child_idx + 1 < size THEN Goto("sift_cmp1")
                 ELSE Goto("sift_cmp2")
         ELSE /\ sift' = sift
              /\ Return
  /\ UNCHANGED <<call, ord, detect_sorted, py, a, range, a0, stack, sc, ins, med, part,
                 heap, intro, key, keyCalls, home0>>

\* if (child_idx + 1 < size && comp(*child, *std::next(child))) ++child
SiftCmp1 ==
  /\ pc = "sift_cmp1"
  /\ sift' = [sift EXCEPT !.child_idx =
                IF Less(At(a, sift.first + sift.child_idx),
                        At(a, sift.first + sift.child_idx + 1))
                THEN @ + 1 ELSE @]
  /\ Goto("sift_cmp2")
  /\ CmpCall
  /\ UNCHANGED <<call, ord, detect_sorted, a, range, a0, stack, sc, ins, med, part,
                 heap, intro, key, keyCalls, home0>>

\* if (!comp(*root, *child)) return; std::iter_swap(root, child); root = child
SiftCmp2 ==
  /\ pc = "sift_cmp2"
  /\ IF ~Less(At(a, sift.first + sift.root_idx), At(a, sift.first + sift.child_idx))
     THEN /\ a' = a
          /\ sift' = sift
          /\ Return
     ELSE /\ a' = IterSwap(a, sift.first + sift.root_idx, sift.first + sift.child_idx)
          /\ sift' = [sift EXCEPT !.root_idx = sift.child_idx]
          /\ Goto("sift_loop")
  /\ CmpCall
  /\ UNCHANGED <<call, ord, detect_sorted, range, a0, stack, sc, ins, med, part,
                 heap, intro, key, keyCalls, home0>>

\* ------------------------------------------------------------------------
\* heapify (rei_sort.hpp:202-212)
HeapifyEntry ==
  /\ pc = "heapify_entry"
  /\ IF heap.last - heap.first <= 1
     THEN /\ heap' = heap
          /\ Return
     ELSE /\ heap' = [heap EXCEPT !.i = (heap.last - heap.first - 2) \div 2]
          /\ Goto("heapify_loop")
  /\ UNCHANGED <<call, ord, detect_sorted, py, a, range, a0, stack, sc, ins, med, part,
                 sift, intro, key, keyCalls, home0>>

\* sift_down(first, last, std::next(first, i), comp)
HeapifyLoop ==
  /\ pc = "heapify_loop"
  /\ sift' = [sift EXCEPT !.first = heap.first, !.last = heap.last,
                          !.root_idx = heap.i]
  /\ CallTo("sift_loop", "heapify_after")
  /\ UNCHANGED <<call, ord, detect_sorted, py, a, range, a0, stack, sc, ins, med, part,
                 heap, intro, key, keyCalls, home0>>

\* A bug: the loop stops one index early, the root is never sifted (i <= 1).
HeapifyAfter_SkipRoot ==
  /\ pc = "heapify_after"
  /\ IF heap.i <= 1
     THEN /\ heap' = heap
          /\ Return
     ELSE /\ heap' = [heap EXCEPT !.i = @ - 1]
          /\ Goto("heapify_loop")
  /\ UNCHANGED <<call, ord, detect_sorted, py, a, range, a0, stack, sc, ins, med, part,
                 sift, intro, key, keyCalls, home0>>

\* if (i == 0) break; --i
HeapifyAfter ==
  /\ pc = "heapify_after"
  /\ IF heap.i = 0
     THEN /\ heap' = heap
          /\ Return
     ELSE /\ heap' = [heap EXCEPT !.i = @ - 1]
          /\ Goto("heapify_loop")
  /\ UNCHANGED <<call, ord, detect_sorted, py, a, range, a0, stack, sc, ins, med, part,
                 sift, intro, key, keyCalls, home0>>

\* ------------------------------------------------------------------------
\* heapsort_range (rei_sort.hpp:214-226)
HeapsortEntry ==
  /\ pc = "heapsort_entry"
  /\ IF heap.first = heap.last THEN Return
     ELSE CallTo("heapify_entry", "heapsort_end")
  /\ UNCHANGED <<call, ord, detect_sorted, py, a, range, a0, stack, sc, ins, med, part,
                 sift, heap, intro, key, keyCalls, home0>>

\* auto end = std::prev(last)
HeapsortEnd ==
  /\ pc = "heapsort_end"
  /\ heap' = [heap EXCEPT !.end = heap.last - 1]
  /\ Goto("heapsort_loop")
  /\ UNCHANGED <<call, ord, detect_sorted, py, a, range, a0, stack, sc, ins, med, part,
                 sift, intro, key, keyCalls, home0>>

\* A bug: the heap that is sifted still holds the maximum just taken out of it
\* (sift_down(first, std::next(end), first, comp)).
HeapsortLoop_Late ==
  /\ pc = "heapsort_loop"
  /\ IF heap.end # heap.first
     THEN /\ a' = IterSwap(a, heap.first, heap.end)
          /\ sift' = [sift EXCEPT !.first = heap.first, !.last = heap.end + 1,
                                  !.root_idx = 0]
          /\ CallTo("sift_loop", "heapsort_dec")
     ELSE /\ a' = a
          /\ sift' = sift
          /\ Return
  /\ UNCHANGED <<call, ord, detect_sorted, py, range, a0, stack, sc, ins, med, part,
                 heap, intro, key, keyCalls, home0>>

\* while (end != first) { std::iter_swap(first, end); sift_down(first, end, first)
HeapsortLoop ==
  /\ pc = "heapsort_loop"
  /\ IF heap.end # heap.first
     THEN /\ a' = IterSwap(a, heap.first, heap.end)
          /\ sift' = [sift EXCEPT !.first = heap.first, !.last = heap.end,
                                  !.root_idx = 0]
          /\ CallTo("sift_loop", "heapsort_dec")
     ELSE /\ a' = a
          /\ sift' = sift
          /\ Return
  /\ UNCHANGED <<call, ord, detect_sorted, py, range, a0, stack, sc, ins, med, part,
                 heap, intro, key, keyCalls, home0>>

\* --end
HeapsortDec ==
  /\ pc = "heapsort_dec"
  /\ heap' = [heap EXCEPT !.end = @ - 1]
  /\ Goto("heapsort_loop")
  /\ UNCHANGED <<call, ord, detect_sorted, py, a, range, a0, stack, sc, ins, med, part,
                 sift, intro, key, keyCalls, home0>>

\* ------------------------------------------------------------------------
\* introsort_iterative (rei_sort.hpp:233-287) on the whole of a
IntroEntry ==
  /\ pc = "intro_entry"
  /\ IF Len(a) = 0
     THEN /\ Return
          /\ UNCHANGED <<stack, intro>>
     ELSE /\ intro' = [intro EXCEPT !.max_depth = MaxDepth(Len(a))]
          /\ stack' = <<[first |-> 0, last |-> Len(a), depth |-> MaxDepth(Len(a))]>>
          /\ Goto("intro_outer")
  /\ UNCHANGED <<call, ord, detect_sorted, py, a, range, a0, sc, ins, med, part,
                 sift, heap, key, keyCalls, home0>>

\* while (!stack.empty()) { auto [lo, hi, depth_limit] = stack.back(); stack.pop_back();
IntroOuter ==
  /\ pc = "intro_outer"
  /\ IF stack = <<>>
     THEN /\ Return
          /\ UNCHANGED <<stack, intro>>
     ELSE /\ intro' = [intro EXCEPT !.lo = stack[Len(stack)].first,
                                    !.hi = stack[Len(stack)].last,
                                    !.depth_limit = stack[Len(stack)].depth]
          /\ stack' = SubSeq(stack, 1, Len(stack) - 1)
          /\ Goto("intro_inner")
  /\ UNCHANGED <<call, ord, detect_sorted, py, a, range, a0, sc, ins, med, part,
                 sift, heap, key, keyCalls, home0>>

\* A bug: the depth budget is never spent (--depth_limit forgotten).
IntroInner_NoBudget ==
  /\ pc = "intro_inner"
  /\ IF intro.hi - intro.lo > INSERTION_THRESHOLD
     THEN IF intro.depth_limit = 0
          THEN /\ heap' = [heap EXCEPT !.first = intro.lo, !.last = intro.hi]
               /\ CallTo("heapsort_entry", "intro_finish")
               /\ UNCHANGED <<intro, part>>
          ELSE /\ intro' = intro
               /\ part' = [part EXCEPT !.first = intro.lo, !.last = intro.hi]
               /\ CallTo("part_entry", "intro_after_part")
               /\ heap' = heap
     ELSE /\ Goto("intro_finish")
          /\ UNCHANGED <<intro, part, heap>>
  /\ UNCHANGED <<call, ord, detect_sorted, py, a, range, a0, stack, sc, ins, med,
                 sift, key, keyCalls, home0>>

\* while (distance(lo, hi) > INSERTION_THRESHOLD): heapsort, or --depth_limit and
\* partition_3way(lo, hi, comp)
IntroInner ==
  /\ pc = "intro_inner"
  /\ IF intro.hi - intro.lo > INSERTION_THRESHOLD
     THEN IF intro.depth_limit = 0
          THEN /\ heap' = [heap EXCEPT !.first = intro.lo, !.last = intro.hi]
               /\ CallTo("heapsort_entry", "intro_finish")
               /\ UNCHANGED <<intro, part>>
          ELSE /\ intro' = [intro EXCEPT !.depth_limit = @ - 1]
               /\ part' = [part EXCEPT !.first = intro.lo, !.last = intro.hi]
               /\ CallTo("part_entry", "intro_after_part")
               /\ heap' = heap
     ELSE /\ Goto("intro_finish")
          /\ UNCHANGED <<intro, part, heap>>
  /\ UNCHANGED <<call, ord, detect_sorted, py, a, range, a0, stack, sc, ins, med,
                 sift, key, keyCalls, home0>>

\* A bug: the pushed frame gets the full budget max_depth again.
IntroAfterPart_FreshBudget ==
  /\ pc = "intro_after_part"
  /\ LET lt == part.lt
         gt == part.gt + 1
         left_size == lt - intro.lo
         right_size == intro.hi - gt
     IN  IF left_size < right_size
         THEN /\ stack' = IF left_size > 1
                          THEN Append(stack, [first |-> intro.lo, last |-> lt,
                                              depth |-> intro.max_depth])
                          ELSE stack
              /\ intro' = [intro EXCEPT !.lo = gt]
         ELSE /\ stack' = IF right_size > 1
                          THEN Append(stack, [first |-> gt, last |-> intro.hi,
                                              depth |-> intro.max_depth])
                          ELSE stack
              /\ intro' = [intro EXCEPT !.hi = lt]
  /\ Goto("intro_inner")
  /\ UNCHANGED <<call, ord, detect_sorted, py, a, range, a0, sc, ins, med, part,
                 sift, heap, key, keyCalls, home0>>

\* A bug: the smaller side is pushed whatever its length (no `> 1` test).
IntroAfterPart_PushAll ==
  /\ pc = "intro_after_part"
  /\ LET lt == part.lt
         gt == part.gt + 1
         left_size == lt - intro.lo
         right_size == intro.hi - gt
     IN  IF left_size < right_size
         THEN /\ stack' = Append(stack, [first |-> intro.lo, last |-> lt,
                                         depth |-> intro.depth_limit])
              /\ intro' = [intro EXCEPT !.lo = gt]
         ELSE /\ stack' = Append(stack, [first |-> gt, last |-> intro.hi,
                                         depth |-> intro.depth_limit])
              /\ intro' = [intro EXCEPT !.hi = lt]
  /\ Goto("intro_inner")
  /\ UNCHANGED <<call, ord, detect_sorted, py, a, range, a0, sc, ins, med, part,
                 sift, heap, key, keyCalls, home0>>

\* A bug: the test of the sizes is the wrong way round (> for <).
IntroAfterPart_PushLarger ==
  /\ pc = "intro_after_part"
  /\ LET lt == part.lt
         gt == part.gt + 1
         left_size == lt - intro.lo
         right_size == intro.hi - gt
     IN  IF left_size > right_size
         THEN /\ stack' = IF left_size > 1
                          THEN Append(stack, [first |-> intro.lo, last |-> lt,
                                              depth |-> intro.depth_limit])
                          ELSE stack
              /\ intro' = [intro EXCEPT !.lo = gt]
         ELSE /\ stack' = IF right_size > 1
                          THEN Append(stack, [first |-> gt, last |-> intro.hi,
                                              depth |-> intro.depth_limit])
                          ELSE stack
              /\ intro' = [intro EXCEPT !.hi = lt]
  /\ Goto("intro_inner")
  /\ UNCHANGED <<call, ord, detect_sorted, py, a, range, a0, sc, ins, med, part,
                 sift, heap, key, keyCalls, home0>>

\* A bug: hi = lt forgotten when the right side has been pushed.
IntroAfterPart_KeepHi ==
  /\ pc = "intro_after_part"
  /\ LET lt == part.lt
         gt == part.gt + 1
         left_size == lt - intro.lo
         right_size == intro.hi - gt
     IN  IF left_size < right_size
         THEN /\ stack' = IF left_size > 1
                          THEN Append(stack, [first |-> intro.lo, last |-> lt,
                                              depth |-> intro.depth_limit])
                          ELSE stack
              /\ intro' = [intro EXCEPT !.lo = gt]
         ELSE /\ stack' = IF right_size > 1
                          THEN Append(stack, [first |-> gt, last |-> intro.hi,
                                              depth |-> intro.depth_limit])
                          ELSE stack
              /\ intro' = intro
  /\ Goto("intro_inner")
  /\ UNCHANGED <<call, ord, detect_sorted, py, a, range, a0, sc, ins, med, part,
                 sift, heap, key, keyCalls, home0>>

\* auto [lt, gt] = partition_3way(...): push the smaller side, go on with the larger
IntroAfterPart ==
  /\ pc = "intro_after_part"
  /\ LET lt == part.lt
         gt == part.gt + 1
         left_size == lt - intro.lo
         right_size == intro.hi - gt
     IN  IF left_size < right_size
         THEN /\ stack' = IF left_size > 1
                          THEN Append(stack, [first |-> intro.lo, last |-> lt,
                                              depth |-> intro.depth_limit])
                          ELSE stack
              /\ intro' = [intro EXCEPT !.lo = gt]
         ELSE /\ stack' = IF right_size > 1
                          THEN Append(stack, [first |-> gt, last |-> intro.hi,
                                              depth |-> intro.depth_limit])
                          ELSE stack
              /\ intro' = [intro EXCEPT !.hi = lt]
  /\ Goto("intro_inner")
  /\ UNCHANGED <<call, ord, detect_sorted, py, a, range, a0, sc, ins, med, part,
                 sift, heap, key, keyCalls, home0>>

\* A bug: ranges of two elements are left alone (> 2 for > 1).
IntroFinish_Off ==
  /\ pc = "intro_finish"
  /\ IF intro.hi - intro.lo > 2
     THEN /\ ins' = [ins EXCEPT !.first = intro.lo, !.last = intro.hi]
          /\ CallTo("ins_entry", "intro_outer")
     ELSE /\ ins' = ins
          /\ Goto("intro_outer")
  /\ UNCHANGED <<call, ord, detect_sorted, py, a, range, a0, stack, sc, med, part,
                 sift, heap, intro, key, keyCalls, home0>>

\* if (std::distance(lo, hi) > 1) insertion_sort(lo, hi, comp);
IntroFinish ==
  /\ pc = "intro_finish"
  /\ IF intro.hi - intro.lo > 1
     THEN /\ ins' = [ins EXCEPT !.first = intro.lo, !.last = intro.hi]
          /\ CallTo("ins_entry", "intro_outer")
     ELSE /\ ins' = ins
          /\ Goto("intro_outer")
  /\ UNCHANGED <<call, ord, detect_sorted, py, a, range, a0, stack, sc, med, part,
                 sift, heap, intro, key, keyCalls, home0>>

\* ------------------------------------------------------------------------
\* rei_sort_impl (rei_sort.hpp:296-326), reached through rei_sort (:350-354)
ImplEntry ==
  /\ pc = "impl_entry"
  /\ IF Len(a) <= 1 THEN Return
     ELSE IF detect_sorted THEN CallTo("scan_entry", "impl_after_scan")
     ELSE Goto("impl_dispatch")
  /\ UNCHANGED <<call, ord, detect_sorted, py, a, range, a0, stack, sc, ins, med, part,
                 sift, heap, intro, key, keyCalls, home0>>

\* A bug: std::reverse forgotten on the is_reverse path.
ImplAfterScan_NoReverse ==
  /\ pc = "impl_after_scan"
  /\ IF sc.is_sorted
     THEN /\ Return
          /\ a' = a
     ELSE IF sc.is_reverse
     THEN /\ Return
          /\ a' = a
     ELSE /\ Goto("impl_dispatch")
          /\ a' = a
  /\ UNCHANGED <<call, ord, detect_sorted, py, range, a0, stack, sc, ins, med, part,
                 sift, heap, intro, key, keyCalls, home0>>

ImplAfterScan ==
  /\ pc = "impl_after_scan"
  /\ IF sc.is_sorted
     THEN /\ Return
          /\ a' = a
     ELSE IF sc.is_reverse
     THEN /\ Return
          /\ a' = Reverse(a)
     ELSE /\ Goto("impl_dispatch")
          /\ a' = a
  /\ UNCHANGED <<call, ord, detect_sorted, py, range, a0, stack, sc, ins, med, part,
                 sift, heap, intro, key, keyCalls, home0>>

ImplDispatch ==
  /\ pc = "impl_dispatch"
  /\ IF Len(a) <= INSERTION_THRESHOLD
     THEN /\ ins' = [ins EXCEPT !.first = 0, !.last = Len(a)]
          /\ Goto("ins_entry")
     ELSE /\ ins' = ins
          /\ Goto("intro_entry")
  /\ UNCHANGED <<call, ord, detect_sorted, py, a, range, a0, stack, sc, med, part,
                 sift, heap, intro, key, keyCalls, home0>>

\* ------------------------------------------------------------------------
\* rei_sort_by_key (rei_sort.hpp:395-439)
\* decorated.reserve(size); std::size_t idx = 0; for (...; it != last; ...)
KeyEntry ==
  /\ pc = "key_entry"
  /\ key' = [key EXCEPT !.idx = 0]
  /\ IF Len(range) = 0 THEN CallTo("impl_entry", "key_sorted")
     ELSE Goto("key_call")
  /\ UNCHANGED <<call, ord, detect_sorted, py, a, range, a0, stack, sc, ins, med, part,
                 sift, heap, intro, keyCalls, home0>>

\* A bug: the key is computed a second time for the same element.
KeyCall_Twice ==
  /\ pc = "key_call"
  /\ a' = Append(a, <<KeyFunc(At(range, key.idx)), key.idx>>)
  /\ keyCalls' = [keyCalls EXCEPT ![key.idx + 1] = @ + 2]
  /\ key' = [key EXCEPT !.idx = @ + 1]
  /\ IF key.idx + 1 = Len(range) THEN CallTo("impl_entry", "key_sorted")
     ELSE Goto("key_call")
  /\ UNCHANGED <<call, ord, detect_sorted, py, range, a0, stack, sc, ins, med, part,
                 sift, heap, intro, home0>>

\* A bug: key_func(*first) for key_func(*it): every record gets the first key.
KeyCall_First ==
  /\ pc = "key_call"
  /\ a' = Append(a, <<KeyFunc(At(range, 0)), key.idx>>)
  /\ keyCalls' = [keyCalls EXCEPT ![1] = @ + 1]
  /\ key' = [key EXCEPT !.idx = @ + 1]
  /\ IF key.idx + 1 = Len(range) THEN CallTo("impl_entry", "key_sorted")
     ELSE Goto("key_call")
  /\ UNCHANGED <<call, ord, detect_sorted, py, range, a0, stack, sc, ins, med, part,
                 sift, heap, intro, home0>>

\* A bug: the element is moved into the key function, key_func(std::move(*it)).
KeyCall_MoveOut ==
  /\ pc = "key_call"
  /\ a' = Append(a, <<KeyFunc(At(range, key.idx)), key.idx>>)
  /\ range' = Put(range, key.idx, Moved)
  /\ keyCalls' = [keyCalls EXCEPT ![key.idx + 1] = @ + 1]
  /\ key' = [key EXCEPT !.idx = @ + 1]
  /\ IF key.idx + 1 = Len(range) THEN CallTo("impl_entry", "key_sorted")
     ELSE Goto("key_call")
  /\ UNCHANGED <<call, ord, detect_sorted, py, a0, stack, sc, ins, med, part,
                 sift, heap, intro, home0>>

\* decorated.emplace_back(key_func(*it), idx); ++it, ++idx; then
\* rei_sort(decorated.begin(), decorated.end(), [&comp]...) with detection on
KeyCall ==
  /\ pc = "key_call"
  /\ a' = Append(a, <<KeyFunc(At(range, key.idx)), key.idx>>)
  /\ keyCalls' = [keyCalls EXCEPT ![key.idx + 1] = @ + 1]
  /\ key' = [key EXCEPT !.idx = @ + 1]
  /\ IF key.idx + 1 = Len(range) THEN CallTo("impl_entry", "key_sorted")
     ELSE Goto("key_call")
  /\ UNCHANGED <<call, ord, detect_sorted, py, range, a0, stack, sc, ins, med, part,
                 sift, heap, intro, home0>>

\* for (size_t i = 0; ...
KeySorted ==
  /\ pc = "key_sorted"
  /\ key' = [key EXCEPT !.i = 0]
  /\ home0' = [k \in 1..Len(a) |-> a[k][2]]
  /\ Goto("undec_outer")
  /\ UNCHANGED <<call, ord, detect_sorted, py, a, range, a0, stack, sc, ins, med, part,
                 sift, heap, intro, keyCalls>>

\* A bug: no test of decorated[current].second != current: an element that is
\* in its place is carried out of its slot and put back.
UndecOuter_NoSkip ==
  /\ pc = "undec_outer"
  /\ IF key.i < Len(a)
     THEN /\ key' = [key EXCEPT !.current = key.i,
                                !.target_val = At(range, key.i),
                                !.moves = @ + 1]
          /\ range' = Put(range, key.i, Moved)
          /\ Goto("undec_inner")
     ELSE /\ UNCHANGED <<key, range>>
          /\ Return
  /\ UNCHANGED <<call, ord, detect_sorted, py, a, a0, stack, sc, ins, med, part,
                 sift, heap, intro, keyCalls, home0>>

\* i < decorated.size(); current = i; if (decorated[current].second != current)
\* { ValueType target_val = std::move(*std::next(first, current));
UndecOuter ==
  /\ pc = "undec_outer"
  /\ IF key.i < Len(a)
     THEN IF At(a, key.i)[2] # key.i
          THEN /\ key' = [key EXCEPT !.current = key.i,
                                     !.target_val = At(range, key.i),
                                     !.moves = @ + 1]
               /\ range' = Put(range, key.i, Moved)
               /\ Goto("undec_inner")
          ELSE /\ key' = [key EXCEPT !.current = key.i, !.i = @ + 1]
               /\ range' = range
               /\ Goto("undec_outer")
     ELSE /\ UNCHANGED <<key, range>>
          /\ Return
  /\ UNCHANGED <<call, ord, detect_sorted, py, a, a0, stack, sc, ins, med, part,
                 sift, heap, intro, keyCalls, home0>>

\* A bug: the carried element is written to slot i, not to slot current.
UndecInner_WrongSlot ==
  /\ pc = "undec_inner"
  /\ LET source == At(a, key.current)[2]
     IN  IF source = key.i
         THEN /\ range' = Put(range, key.i, key.target_val)
              /\ a' = Put(a, key.current, <<At(a, key.current)[1], key.current>>)
              /\ key' = [key EXCEPT !.target_val = Moved, !.i = @ + 1,
                                    !.moves = @ + 1]
              /\ Goto("undec_outer")
         ELSE /\ range' = Put(Put(range, key.current, At(range, source)),
                              source, Moved)
              /\ a' = Put(a, key.current, <<At(a, key.current)[1], key.current>>)
              /\ key' = [key EXCEPT !.current = source, !.moves = @ + 1]
              /\ Goto("undec_inner")
  /\ UNCHANGED <<call, ord, detect_sorted, py, a0, stack, sc, ins, med, part,
                 sift, heap, intro, keyCalls, home0>>

\* One round of while (true), or the two statements after it and ++i
UndecInner ==
  /\ pc = "undec_inner"
  /\ LET source == At(a, key.current)[2]
     IN  IF source = key.i
         THEN /\ range' = Put(range, key.current, key.target_val)
              /\ a' = Put(a, key.current, <<At(a, key.current)[1], key.current>>)
              /\ key' = [key EXCEPT !.target_val = Moved, !.i = @ + 1,
                                    !.moves = @ + 1]
              /\ Goto("undec_outer")
         ELSE /\ range' = Put(Put(range, key.current, At(range, source)),
                              source, Moved)
              /\ a' = Put(a, key.current, <<At(a, key.current)[1], key.current>>)
              /\ key' = [key EXCEPT !.current = source, !.moves = @ + 1]
              /\ Goto("undec_inner")
  /\ UNCHANGED <<call, ord, detect_sorted, py, a0, stack, sc, ins, med, part,
                 sift, heap, intro, keyCalls, home0>>

\* ------------------------------------------------------------------------
\* The ordering predicate fails
CmpLabels ==
  {"scan_cmp1", "scan_cmp2", "ins_ub_cmp",
   "med_ab_cmp", "med_bc_cmp", "med_ac_cmp", "med_cb_cmp", "med_ca_cmp",
   "part_cmp1", "part_cmp2", "sift_cmp1", "sift_cmp2"}

\* The positions of a whose elements the invocation of comp at pc is handed.
CmpSlots ==
  CASE pc \in {"scan_cmp1", "scan_cmp2"} -> {sc.it, sc.it + 1}
    [] pc = "ins_ub_cmp" -> {ins.ub_first + ins.ub_len \div 2}
    [] pc = "med_ab_cmp" -> {med.a, med.b}
    [] pc \in {"med_bc_cmp", "med_cb_cmp"} -> {med.b, med.c}
    [] pc \in {"med_ac_cmp", "med_ca_cmp"} -> {med.a, med.c}
    [] pc \in {"part_cmp1", "part_cmp2"} -> {part.i}
    [] pc = "sift_cmp1" -> {sift.first + sift.child_idx,
                            sift.first + sift.child_idx + 1}
    [] pc = "sift_cmp2" -> {sift.first + sift.root_idx,
                            sift.first + sift.child_idx}
    [] OTHER -> {}

\* The locals the invocation of comp at pc is handed: insertion sort's value,
\* the partition's copy of the pivot.
CmpLocals ==
  CASE pc = "ins_ub_cmp" -> {ins.value}
    [] pc \in {"part_cmp1", "part_cmp2"} -> {part.pivot}
    [] OTHER -> {}

\* The exception leaves every function in progress: their locals are destroyed.
Throw ==
  /\ pc \in CmpLabels
  /\ pc' = "thrown"
  /\ ret' = <<>>
  /\ UNCHANGED <<call, ord, detect_sorted, py, a, range, a0, stack, sc, ins, med, part,
                 sift, heap, intro, key, keyCalls, home0>>

\* The key function fails: decorated is destroyed with the other locals.
KeyThrow ==
  /\ pc = "key_call"
  /\ pc' = "thrown"
  /\ ret' = <<>>
  /\ UNCHANGED <<call, ord, detect_sorted, py, a, range, a0, stack, sc, ins, med, part,
                 sift, heap, intro, key, keyCalls, home0>>

Step ==
  \/ ScanEntry \/ ScanCmp1 \/ ScanCmp2
  \/ InsEntry \/ InsLoop \/ InsUbCmp \/ InsPlace
  \/ MedAB \/ MedBC \/ MedAC \/ MedCB \/ MedCA
  \/ PartEntry \/ PartPivot \/ PartCmp1 \/ PartCmp2
  \/ SiftLoop \/ SiftCmp1 \/ SiftCmp2
  \/ HeapifyEntry \/ HeapifyLoop \/ HeapifyAfter
  \/ HeapsortEntry \/ HeapsortEnd \/ HeapsortLoop \/ HeapsortDec
  \/ IntroEntry \/ IntroOuter \/ IntroInner \/ IntroAfterPart \/ IntroFinish
  \/ ImplEntry \/ ImplAfterScan \/ ImplDispatch
  \/ KeyEntry \/ KeyCall \/ KeySorted \/ UndecOuter \/ UndecInner

Next == Step \/ Throw \/ KeyThrow

Spec == Init /\ [][Next]_vars

\* A non-failing ordering: no step is Throw, and the single thread keeps running.
LiveSpec == Init /\ [][Step]_vars /\ WF_vars(Step)

\* ------------------------------------------------------------------------
\* rei_sort with a predicate that is no strict weak ordering (and never fails)
AnyKeys ==
  SmallKeys \cup {Pattern(sh, n, 5) : sh \in Shapes, n \in BigLens}
            \cup {KillerKeys, StackKillerKeys}

InitAny ==
  /\ call = "rei_sort"
  /\ ord \in AnyPredicates
  /\ detect_sorted \in BOOLEAN
  /\ \E keys \in AnyKeys : a = Elems(keys)
  /\ range = <<>>
  /\ a0 = a
  /\ keyCalls = <<>>
  /\ home0 = <<>>
  /\ pc = "impl_entry"
  /\ Locals0

AnyStep ==
  \/ ScanEntry \/ ScanCmp1 \/ ScanCmp2
  \/ InsEntry \/ InsLoop \/ InsUbCmp \/ InsPlace
  \/ MedAB \/ MedBC \/ MedAC \/ MedCB \/ MedCA
  \/ PartEntry \/ PartPivot \/ PartCmp1 \/ PartCmp2
  \/ SiftLoop \/ SiftCmp1 \/ SiftCmp2
  \/ HeapifyEntry \/ HeapifyLoop \/ HeapifyAfter
  \/ HeapsortEntry \/ HeapsortEnd \/ HeapsortLoop \/ HeapsortDec
  \/ IntroEntry \/ IntroOuter \/ IntroInner \/ IntroAfterPart \/ IntroFinish
  \/ ImplEntry \/ ImplAfterScan \/ ImplDispatch

AnySpec == InitAny /\ [][AnyStep]_vars /\ WF_vars(AnyStep)

\* The positions of a that the step at pc reads or writes.
Touched ==
  CASE pc = "ins_loop" -> IF ins.i = ins.last THEN {} ELSE {ins.i}
    [] pc = "ins_place" -> ins.ub_first..ins.i
    [] pc = "part_pivot" -> {part.first, med.result}
    [] pc = "part_cmp1" -> {part.i, part.lt}
    [] pc = "part_cmp2" -> {part.i, part.gt}
    [] pc = "heapsort_loop" ->
         IF heap.end # heap.first THEN {heap.first, heap.end} ELSE {}
    [] OTHER -> CmpSlots

\* ------------------------------------------------------------------------
\* The building blocks called on their own: each is a public function template
\* of namespace rei taking a range [first, last).

\* The ranges handed to a building block within a sequence of n elements: the
\* whole sequence and, for the short sequences, its interior.
SubRanges(n) ==
  {<<0, n>>} \cup (IF 2 <= n /\ n <= MaxLen THEN {<<1, n - 1>>} ELSE {})

InitBlock(name, entry) ==
  /\ call = name
  /\ ord \in Orderings
  /\ detect_sorted = FALSE
  /\ \E keys \in SortKeys : a = Elems(keys)
  /\ range = <<>>
  /\ a0 = a
  /\ keyCalls = <<>>
  /\ home0 = <<>>
  /\ pc = entry
  /\ py = pyInit
  /\ ret = <<"done">>
  /\ stack = <<>>
  /\ sc = scInit
  /\ med = medInit
  /\ sift = siftInit
  /\ intro = introInit
  /\ key = keyInit

\* partition_3way(first, last, comp)
InitPartition ==
  /\ InitBlock("partition_3way", "part_entry")
  /\ \E r \in SubRanges(Len(a)) : part = [partInit EXCEPT !.first = r[1], !.last = r[2]]
  /\ ins = insInit
  /\ heap = heapInit

\* insertion_sort(first, last, comp)
InitInsertion ==
  /\ InitBlock("insertion_sort", "ins_entry")
  /\ \E r \in SubRanges(Len(a)) : ins = [insInit EXCEPT !.first = r[1], !.last = r[2]]
  /\ part = partInit
  /\ heap = heapInit

\* heapsort_range(first, last, comp)
InitHeapsort ==
  /\ InitBlock("heapsort_range", "heapsort_entry")
  /\ \E r \in SubRanges(Len(a)) : heap = [heapInit EXCEPT !.first = r[1], !.last = r[2]]
  /\ ins = insInit
  /\ part = partInit

\* heapify(first, last, comp)
InitHeapify ==
  /\ InitBlock("heapify", "heapify_entry")
  /\ \E r \in SubRanges(Len(a)) : heap = [heapInit EXCEPT !.first = r[1], !.last = r[2]]
  /\ ins = insInit
  /\ part = partInit

\* median_of_three(a, b, c, comp): any three positions, equal ones included, of
\* three elements with any keys
InitMedian ==
  /\ call = "median_of_three"
  /\ ord \in Orderings
  /\ detect_sorted = FALSE
  /\ \E keys \in [1..3 -> 1..MaxKey] : a = Elems(keys)
  /\ range = <<>>
  /\ a0 = a
  /\ keyCalls = <<>>
  /\ home0 = <<>>
  /\ pc = "med_ab_cmp"
  /\ py = pyInit
  /\ ret = <<"done">>
  /\ stack = <<>>
  /\ sc = scInit
  /\ ins = insInit
  /\ \E p, q, r \in 0..2 : med = [medInit EXCEPT !.a = p, !.b = q, !.c = r]
  /\ part = partInit
  /\ sift = siftInit
  /\ heap = heapInit
  /\ intro = introInit
  /\ key = keyInit

BlockInit ==
  InitPartition \/ InitInsertion \/ InitHeapsort \/ InitHeapify \/ InitMedian

BlockStep ==
  \/ InsEntry \/ InsLoop \/ InsUbCmp \/ InsPlace
  \/ MedAB \/ MedBC \/ MedAC \/ MedCB \/ MedCA
  \/ PartEntry \/ PartPivot \/ PartCmp1 \/ PartCmp2
  \/ SiftLoop \/ SiftCmp1 \/ SiftCmp2
  \/ HeapifyEntry \/ HeapifyLoop \/ HeapifyAfter
  \/ HeapsortEntry \/ HeapsortEnd \/ HeapsortLoop \/ HeapsortDec

BlockSpec == BlockInit /\ [][BlockStep]_vars

\* ------------------------------------------------------------------------
\* The Python wrapper (reicore.cpp): reicore.rei_sort(arr, key, detect_sorted).
\* range is the Python list, a the C++ vector that is sorted.
ElemTypes == {"int", "float", "str", "other"}

\* sort_python_list(lst, detect_sorted) / sort_python_list_key(lst, key_func,
\* detect_sorted), entered by Python with the GIL held
InitPy ==
  /\ call \in {"sort_python_list", "sort_python_list_key"}
  /\ ord = "less"
  /\ detect_sorted \in BOOLEAN
  /\ \E t \in ElemTypes : py = [pyInit EXCEPT !.etype = t]
  /\ \E keys \in (IF call = "sort_python_list" /\ py.etype = "other"
                  THEN SmallKeys ELSE AnyKeys) : range = Payload(keys)
  /\ a = <<>>
  /\ a0 = range
  /\ keyCalls = [k \in 1..Len(range) |-> 0]
  /\ home0 = <<>>
  /\ pc = IF call = "sort_python_list" THEN "pl_entry" ELSE "pk_entry"
  /\ ret = <<"done">>
  /\ stack = <<>>
  /\ sc = scInit
  /\ ins = insInit
  /\ med = medInit
  /\ part = partInit
  /\ sift = siftInit
  /\ heap = heapInit
  /\ intro = introInit
  /\ key = keyInit

\* if (lst.empty()) return; auto first = lst[0]; the py::isinstance tests
PyListEntry ==
  /\ pc = "pl_entry"
  /\ IF Len(range) = 0 THEN Return
     ELSE IF py.etype \in {"int", "float", "str"} THEN Goto("pl_extract")
     ELSE Goto("pf_release")
  /\ py' = [py EXCEPT !.i = 0]
  /\ UNCHANGED <<call, ord, detect_sorted, a, range, a0, stack, sc, ins, med, part,
                 sift, heap, intro, key, keyCalls, home0>>

\* for (auto item : lst) vec.push_back(item.cast<T>());
PyExtract ==
  /\ pc = "pl_extract"
  /\ a' = Append(a, At(range, py.i))
  /\ py' = [py EXCEPT !.i = @ + 1]
  /\ IF py.i + 1 = Len(range) THEN Goto("pl_release") ELSE Goto("pl_extract")
  /\ UNCHANGED <<call, ord, detect_sorted, range, a0, stack, sc, ins, med, part,
                 sift, heap, intro, key, keyCalls, home0>>

\* { py::gil_scoped_release release; rei::rei_sort(vec.begin(), vec.end(),
\*   std::less<T>{}, detect_sorted);
PyRelease ==
  /\ pc = "pl_release"
  /\ py' = [py EXCEPT !.gil = FALSE, !.cmp = "native"]
  /\ CallTo("impl_entry", "pl_reacquire")
  /\ UNCHANGED <<call, ord, detect_sorted, a, range, a0, stack, sc, ins, med, part,
                 sift, heap, intro, key, keyCalls, home0>>

\* } the end of the scope of `release`
PyReacquire ==
  /\ pc = "pl_reacquire"
  /\ py' = [py EXCEPT !.gil = TRUE, !.i = 0]
  /\ Goto("pl_write")
  /\ UNCHANGED <<call, ord, detect_sorted, a, range, a0, stack, sc, ins, med, part,
                 sift, heap, intro, key, keyCalls, home0>>

\* for (size_t i = 0; i < vec.size(); ++i) lst[i] = vec[i];
PyWrite ==
  /\ pc = "pl_write"
  /\ range' = Put(range, py.i, At(a, py.i))
  /\ py' = [py EXCEPT !.i = @ + 1]
  /\ IF py.i + 1 = Len(a) THEN Return ELSE Goto("pl_write")
  /\ UNCHANGED <<call, ord, detect_sorted, a, a0, stack, sc, ins, med, part,
                 sift, heap, intro, key, keyCalls, home0>>

\* The fallback: py::gil_scoped_release release; std::sort(lst.begin(),
\* lst.end(), [](py::handle a, py::handle b) { ... });
PyFallbackRelease ==
  /\ pc = "pf_release"
  /\ py' = [py EXCEPT !.gil = FALSE, !.cmp = "bare", !.cmps = 0]
  /\ IF Len(range) >= 2 THEN Goto("pf_cmp") ELSE Goto("pf_reacquire")
  /\ UNCHANGED <<call, ord, detect_sorted, a, range, a0, stack, sc, ins, med, part,
                 sift, heap, intro, key, keyCalls, home0>>

\* The orders a sort of the list s may leave, whatever it does with the items.
PermsOf(s) ==
  {[k \in 1..Len(s) |-> s[f[k]]] :
     f \in {g \in [1..Len(s) -> 1..Len(s)] :
              \A i, j \in 1..Len(s) : g[i] = g[j] => i = j}}

\* std::sort (the library's: its algorithm is no part of this repository)
\* invokes the comparator at least n - 1 and at most n * n times and then
\* returns; which items it has exchanged by then is left open.
PyFallbackCmp ==
  /\ pc = "pf_cmp"
  /\ py.phase = "returned"
  /\ py' = [py EXCEPT !.phase = "idle", !.cmps = @ + 1]
  /\ \/ /\ py.cmps + 1 < Len(range) * Len(range)
        /\ Goto("pf_cmp")
        /\ range' = range
     \/ /\ py.cmps + 1 >= Len(range) - 1
        /\ Goto("pf_reacquire")
        /\ range' \in PermsOf(range)
  /\ UNCHANGED <<call, ord, detect_sorted, a, a0, stack, sc, ins, med, part,
                 sift, heap, intro, key, keyCalls, home0>>

\* the end of the scope of `release` (the else branch)
PyFallbackReacquire ==
  /\ pc = "pf_reacquire"
  /\ py' = [py EXCEPT !.gil = TRUE, !.cmp = "native"]
  /\ Return
  /\ UNCHANGED <<call, ord, detect_sorted, a, range, a0, stack, sc, ins, med, part,
                 sift, heap, intro, key, keyCalls, home0>>

\* sort_python_list_key: if (lst.empty()) return; auto first = lst[0]; the
\* py::isinstance tests; every element type takes sort_python_list_key_impl<T>
PyKeyEntry ==
  /\ pc = "pk_entry"
  /\ IF Len(range) = 0 THEN Return ELSE Goto("pk_decorate")
  /\ py' = [py EXCEPT !.i = 0]
  /\ UNCHANGED <<call, ord, detect_sorted, a, range, a0, stack, sc, ins, med, part,
                 sift, heap, intro, key, keyCalls, home0>>

\* auto item = lst[i]; py::object key_val = key_func(item);
\* decorated.push_back({key_val, item.cast<T>(), i});
PyDecorate ==
  /\ pc = "pk_decorate"
  /\ a' = Append(a, <<KeyFunc(At(range, py.i)), py.i>>)
  /\ keyCalls' = [keyCalls EXCEPT ![py.i + 1] = @ + 1]
  /\ py' = [py EXCEPT !.i = @ + 1]
  /\ IF py.i + 1 = Len(range) THEN Goto("pk_release") ELSE Goto("pk_decorate")
  /\ UNCHANGED <<call, ord, detect_sorted, range, a0, stack, sc, ins, med, part,
                 sift, heap, intro, key, home0>>

\* { py::gil_scoped_release release; rei::rei_sort(decorated.begin(),
\*   decorated.end(), [](const Item& a, const Item& b) {...}, detect_sorted);
PyKeyRelease ==
  /\ pc = "pk_release"
  /\ py' = [py EXCEPT !.gil = FALSE, !.cmp = "acquire"]
  /\ CallTo("impl_entry", "pk_reacquire")
  /\ UNCHANGED <<call, ord, detect_sorted, a, range, a0, stack, sc, ins, med, part,
                 sift, heap, intro, key, keyCalls, home0>>

\* } the end of the scope of `release`
PyKeyReacquire ==
  /\ pc = "pk_reacquire"
  /\ py' = [py EXCEPT !.gil = TRUE, !.cmp = "native", !.i = 0]
  /\ Goto("pk_write")
  /\ UNCHANGED <<call, ord, detect_sorted, a, range, a0, stack, sc, ins, med, part,
                 sift, heap, intro, key, keyCalls, home0>>

\* for (size_t i = 0; ...) lst[i] = decorated[i].original;
PyKeyWrite ==
  /\ pc = "pk_write"
  /\ range' = Put(range, py.i, At(a0, At(a, py.i)[2]))
  /\ py' = [py EXCEPT !.i = @ + 1]
  /\ IF py.i + 1 = Len(a) THEN Return ELSE Goto("pk_write")
  /\ UNCHANGED <<call, ord, detect_sorted, a, a0, stack, sc, ins, med, part,
                 sift, heap, intro, key, keyCalls, home0>>

\* The comparator is entered. The key path's lambda starts with
\* py::gil_scoped_acquire acquire; the fallback's lambda has no such line.
LambdaEnter ==
  /\ pc \in CmpLabels \cup {"pf_cmp"}
  /\ py.cmp # "native"
  /\ py.phase = "idle"
  /\ py' = IF py.cmp = "acquire"
           THEN [py EXCEPT !.phase = "in_lambda", !.saved = py.gil, !.gil = TRUE]
           ELSE [py EXCEPT !.phase = "in_lambda"]
  /\ UNCHANGED <<call, ord, detect_sorted, a, range, a0, pc, ret, stack, sc, ins,
                 med, part, sift, heap, intro, key, keyCalls, home0>>

\* return a.attr("__lt__")(b).cast<bool>(); and the end of the scope of `acquire`
LambdaExit ==
  /\ py.phase = "in_lambda"
  /\ py' = IF py.cmp = "acquire"
           THEN [py EXCEPT !.phase = "returned", !.gil = py.saved]
           ELSE [py EXCEPT !.phase = "returned"]
  /\ UNCHANGED <<call, ord, detect_sorted, a, range, a0, pc, ret, stack, sc, ins,
                 med, part, sift, heap, intro, key, keyCalls, home0>>

PyNext ==
  \/ PyListEntry \/ PyExtract \/ PyRelease \/ PyReacquire \/ PyWrite
  \/ PyFallbackRelease \/ PyFallbackCmp \/ PyFallbackReacquire
  \/ PyKeyEntry \/ PyDecorate \/ PyKeyRelease \/ PyKeyReacquire \/ PyKeyWrite
  \/ LambdaEnter \/ LambdaExit
  \/ AnyStep

PySpec == InitPy /\ [][PyNext]_vars

\* ------------------------------------------------------------------------
\* Properties
Done == pc = "done"

\* for every i < j: not less(s[j], s[i])
IsSorted(s) == \A i, j \in 1..Len(s) : i < j => ~Less(s[j], s[i])

Count(s, e) == Cardinality({k \in 1..Len(s) : s[k] = e})

SameMultiset(s, t) ==
  /\ Len(s) = Len(t)
  /\ \A k \in 1..Len(t) : Count(s, t[k]) = Count(t, t[k])

HasTies(s) == \E i, j \in 1..Len(s) : i # j /\ ~Less(s[i], s[j]) /\ ~Less(s[j], s[i])

\* C1: when rei_sort returns, no pair of positions i < j has less(a[j], a[i]).
C1_Sorted == (call = "rei_sort" /\ Done) => IsSorted(a)

C1_Witness ==
  /\ call = "rei_sort" /\ Done
  /\ ~detect_sorted
  /\ Len(a) > INSERTION_THRESHOLD
  /\ ~IsSorted(a0)
  /\ IsSorted(a)

\* C2: when rei_sort returns, the range holds the multiset of elements it held
\* at entry: no slot is moved-from and no element is kept in a temporary.
C2_Permutation ==
  (call = "rei_sort" /\ Done) =>
    /\ SameMultiset(a, a0)
    /\ \A k \in 1..Len(a) : a[k] # Moved
    /\ ins.value = Moved

C2_Witness ==
  /\ call = "rei_sort" /\ Done
  /\ a # a0
  /\ HasTies(a0)
  /\ SameMultiset(a, a0)

\* C3: when rei_sort_by_key returns, the range is a permutation of the input
\* elements, each intact, and key(a[0]), key(a[1]), ... is non-decreasing.
C3_SortedByKey ==
  (call = "rei_sort_by_key" /\ Done) =>
    /\ SameMultiset(range, a0)
    /\ \A i, j \in 1..Len(range) :
         i < j => ~Comp(KeyFunc(range[j]), KeyFunc(range[i]))

C3_Witness ==
  /\ call = "rei_sort_by_key" /\ Done
  /\ range # a0
  /\ Len(range) >= 3
  /\ \A i, j \in 1..Len(range) :
       i < j => ~Comp(KeyFunc(range[j]), KeyFunc(range[i]))

\* C4: key_func is invoked at most once on each element at any time, and
\* exactly once on each of the n elements when rei_sort_by_key returns.
C4_KeyOnce ==
  /\ call = "rei_sort_by_key" => Len(keyCalls) = Len(a0)
  /\ \A k \in 1..Len(keyCalls) : keyCalls[k] <= 1
  /\ (call = "rei_sort_by_key" /\ Done) =>
       \A k \in 1..Len(keyCalls) : keyCalls[k] = 1

C4_Witness ==
  /\ call = "rei_sort_by_key" /\ Done
  /\ Len(a0) > INSERTION_THRESHOLD
  /\ range # a0
  /\ \A k \in 1..Len(keyCalls) : keyCalls[k] = 1

\* C5 as stated: for every range that is already non-decreasing, and either
\* value of detect_sorted, rei_sort leaves every position holding the element
\* it held at entry.
C5_Idempotent == (call = "rei_sort" /\ Done /\ IsSorted(a0)) => a = a0

\* C5 as amended: the same, when detect_sorted is true, or the length is at
\* most INSERTION_THRESHOLD, or no two elements are equivalent; otherwise
\* every position holds an element equivalent to the one it held at entry.
C5_IdempotentAmended ==
  (call = "rei_sort" /\ Done /\ IsSorted(a0)) =>
    /\ (detect_sorted \/ Len(a0) <= INSERTION_THRESHOLD \/ ~HasTies(a0)) => a = a0
    /\ Len(a) = Len(a0)
    /\ \A k \in 1..Len(a0) : ~Less(a[k], a0[k]) /\ ~Less(a0[k], a[k])

C5_Witness ==
  /\ call = "rei_sort" /\ Done
  /\ IsSorted(a0)
  /\ HasTies(a0)
  /\ ~detect_sorted
  /\ Len(a0) >= 3
  /\ a = a0

\* C6: when the ordering predicate fails during rei_sort, the range holds the
\* multiset of elements it held at entry.
C6_ThrowKeepsMultiset ==
  (call = "rei_sort" /\ pc = "thrown") => SameMultiset(a, a0)

\* C7: every call of rei_sort and rei_sort_by_key with a non-failing ordering
\* eventually returns.
C7_Terminates == <>Done

C7_Witness ==
  /\ Done
  /\ call = "rei_sort_by_key"
  /\ heap.last - heap.first > INSERTION_THRESHOLD
  /\ \E k \in 1..Len(home0) : home0[k] # k - 1

\* C8: the work stack of the introsort driver never holds more than
\* INTROSORT_DEPTH_FACTOR * ceil(log2 n) + 1 frames.
C8_StackBound ==
  Len(stack) <= INTROSORT_DEPTH_FACTOR * CeilLog2(Len(a)) + 1

C8_Witness ==
  /\ call = "rei_sort"
  /\ Len(stack) = INTROSORT_DEPTH_FACTOR * CeilLog2(Len(a))
  /\ Len(stack) >= 12

\* C9: the scanner returns is_sorted exactly when no adjacent pair descends
\* and is_reverse exactly when no adjacent pair ascends.
C9_ScanResult ==
  ((call = "scan_sorted_and_reverse" /\ Done) \/ pc = "impl_after_scan") =>
    /\ sc.is_sorted <=> \A k \in 1..(Len(a) - 1) : ~Less(a[k + 1], a[k])
    /\ sc.is_reverse <=> \A k \in 1..(Len(a) - 1) : ~Less(a[k], a[k + 1])

C9_Witness ==
  /\ call = "scan_sorted_and_reverse" /\ Done
  /\ Len(a) = 4
  /\ ~sc.is_sorted /\ ~sc.is_reverse
  /\ sc.it < Len(a) - 2

\* C10: the cycle-following undecoration ends with a'[i] = a[home[i]] for
\* every i, where home is the decorated array's permutation when it starts.
C10_Undecorate ==
  (call = "rei_sort_by_key" /\ Done) =>
    /\ Len(range) = Len(a0)
    /\ \A k \in 1..Len(range) : range[k] = At(a0, home0[k])

C10_Witness ==
  /\ call = "rei_sort_by_key" /\ Done
  /\ home0 = <<1, 2, 0, 3>>
  /\ range # a0

\* C11: every invocation of insertion sort made during rei_sort, by the entry
\* point or by the introsort driver, is on a range of at most
\* INSERTION_THRESHOLD elements.
C11_InsertionSmall ==
  (call = "rei_sort" /\ pc = "ins_entry") =>
    ins.last - ins.first <= INSERTION_THRESHOLD

\* The elements of positions [lo, hi) of s, in order.
Slice(s, lo, hi) == [k \in 1..(hi - lo) |-> s[lo + k]]

\* x and y are equivalent: neither is less than the other.
Equiv(x, y) == ~Less(x, y) /\ ~Less(y, x)

\* m is a median of the three elements m, u, v.
IsMedian(m, u, v) ==
  \/ ~Less(m, u) /\ ~Less(v, m)
  \/ ~Less(m, v) /\ ~Less(u, m)

\* The element at position p of s0 is a median of those at p, q, r.
MedianAt(s0, p, q, r, x) ==
  \/ x = At(s0, p) /\ IsMedian(x, At(s0, q), At(s0, r))
  \/ x = At(s0, q) /\ IsMedian(x, At(s0, p), At(s0, r))
  \/ x = At(s0, r) /\ IsMedian(x, At(s0, p), At(s0, q))

\* Nothing outside [lo, hi) was touched and [lo, hi) holds what it held in s0.
PermutedWithin(s, s0, lo, hi) ==
  /\ Len(s) = Len(s0)
  /\ \A k \in 1..Len(s) : (k <= lo \/ k > hi) => s[k] = s0[k]
  /\ SameMultiset(Slice(s, lo, hi), Slice(s0, lo, hi))

\* C12: partition_3way on a non-empty [lo, hi) returns (lt, gt_end) with
\* lo <= lt < gt_end <= hi, the range a permutation of its previous content,
\* [lo, lt) less than the pivot, [lt, gt_end) equivalent to it, [gt_end, hi)
\* greater, and the pivot the median of the elements that were at lo,
\* lo + (hi - lo) / 2 and hi - 1.
C12_Partition ==
  (call = "partition_3way" /\ Done /\ part.first < part.last) =>
    LET lo == part.first
        hi == part.last
        lt == part.lt
        gt_end == part.gt + 1
    IN  /\ lo <= lt /\ lt < gt_end /\ gt_end <= hi
        /\ PermutedWithin(a, a0, lo, hi)
        /\ MedianAt(a0, lo, lo + (hi - lo) \div 2, hi - 1, part.pivot)
        /\ \A p \in lo..(lt - 1) : Less(At(a, p), part.pivot)
        /\ \A p \in lt..(gt_end - 1) : Equiv(At(a, p), part.pivot)
        /\ \A p \in gt_end..(hi - 1) : Less(part.pivot, At(a, p))

C12_Witness ==
  /\ call = "partition_3way" /\ Done
  /\ part.first = 1 /\ part.last = 3
  /\ part.lt = 1 /\ part.gt = 1
  /\ a # a0

\* The positions of median_of_three and partition_3way.
PartLabels ==
  {"part_entry", "part_pivot", "part_cmp1", "part_cmp2",
   "med_ab_cmp", "med_bc_cmp", "med_ac_cmp", "med_cb_cmp", "med_ca_cmp"}

\* C13: the introsort driver starts a partition only from its inner loop, on
\* a range longer than INSERTION_THRESHOLD with a budget > 0, and starts
\* heapsort exactly on a range longer than INSERTION_THRESHOLD with budget 0;
\* the budget is lowered by exactly 1 when the partition starts, stays as it
\* is while the partition runs, and is the budget both of the frame pushed
\* afterwards and of the range the loop continues with.
C13_Budget ==
  [][ /\ (pc' = "part_entry") =>
           /\ pc = "intro_inner"
           /\ intro.hi - intro.lo > INSERTION_THRESHOLD
           /\ intro.depth_limit > 0
           /\ intro'.depth_limit = intro.depth_limit - 1
           /\ part'.first = intro.lo /\ part'.last = intro.hi
      /\ (pc = "intro_inner") =>
           ((pc' = "heapsort_entry") <=>
              (intro.hi - intro.lo > INSERTION_THRESHOLD /\ intro.depth_limit = 0))
      /\ (pc' = "heapsort_entry") => pc = "intro_inner"
      /\ (pc \in PartLabels) => intro' = intro
      /\ (pc = "intro_after_part") =>
           /\ intro'.depth_limit = intro.depth_limit
           /\ Len(stack') > Len(stack) =>
                stack'[Len(stack')].depth = intro.depth_limit
    ]_vars

C13_Witness ==
  /\ call = "rei_sort"
  /\ pc = "heapsort_entry"
  /\ intro.depth_limit = 0
  /\ intro.hi - intro.lo > INSERTION_THRESHOLD
  /\ stack # <<>>
  /\ stack[Len(stack)].depth = 0

\* C14: every frame on the work stack of the introsort driver spans more than
\* one element, within the range being sorted, and carries a budget >= 0.
C14_Frames ==
  \A k \in 1..Len(stack) :
    /\ stack[k].last - stack[k].first > 1
    /\ 0 <= stack[k].first /\ stack[k].last <= Len(a)
    /\ stack[k].depth >= 0

C14_Witness ==
  /\ call = "rei_sort"
  /\ Len(stack) >= 2
  /\ stack[Len(stack)].last - stack[Len(stack)].first = 2
  /\ stack[Len(stack)].depth = 0

\* C15: the step of the introsort driver that follows a partition of [lo, hi)
\* into [lo, lt), [lt, gt_end), [gt_end, hi) continues with one of the two
\* outer ranges and pushes the other one, which is never the longer of the two,
\* unless its length is <= 1; no other frame is touched, so that the middle
\* range is in no frame and not in the range the loop continues with.
C15_SmallerPushed ==
  [][(pc = "intro_after_part") =>
       LET left == <<intro.lo, part.lt>>
           right == <<part.gt + 1, intro.hi>>
           cont == <<intro'.lo, intro'.hi>>
           other == IF cont = left THEN right ELSE left
       IN  /\ cont \in {left, right}
           /\ other[2] - other[1] <= cont[2] - cont[1]
           /\ IF other[2] - other[1] > 1
              THEN /\ Len(stack') = Len(stack) + 1
                   /\ SubSeq(stack', 1, Len(stack)) = stack
                   /\ stack'[Len(stack')].first = other[1]
                   /\ stack'[Len(stack')].last = other[2]
              ELSE stack' = stack
    ]_vars

C15_Witness ==
  /\ call = "rei_sort"
  /\ pc = "intro_inner"
  /\ stack # <<>>
  /\ stack[Len(stack)].first = part.gt + 1
  /\ intro.hi = part.lt
  /\ part.gt + 1 - part.lt >= 2
  /\ stack[Len(stack)].last - stack[Len(stack)].first > INSERTION_THRESHOLD
  /\ stack[Len(stack)].last - stack[Len(stack)].first <= intro.hi - intro.lo

\* C16: whenever the ordering predicate is invoked, each argument is an
\* element of the range at a position inside it or a local holding an element,
\* and none of them is moved-from.
C16_LiveArguments ==
  (pc \in CmpLabels) =>
    /\ \A p \in CmpSlots : 0 <= p /\ p < Len(a) /\ At(a, p) # Moved
    /\ \A v \in CmpLocals : v # Moved

C16_Witness ==
  /\ call = "rei_sort"
  /\ pc = "ins_ub_cmp"
  /\ At(a, ins.i) = Moved
  /\ ins.ub_first + ins.ub_len \div 2 = ins.i - 1
  /\ ins.i - ins.first >= 3

\* C17: with a predicate that is no strict weak ordering, rei_sort reads and
\* writes positions of the range only, returns, and the range then holds the
\* multiset of elements it held at entry.
C17_AnyPredicate ==
  /\ [](\A p \in Touched : 0 <= p /\ p < Len(a))
  /\ [](Done => /\ SameMultiset(a, a0)
                /\ \A k \in 1..Len(a) : a[k] # Moved)
  /\ <>Done

C17_Witness ==
  /\ Done
  /\ ord \in AnyPredicates
  /\ heap.last - heap.first > INSERTION_THRESHOLD
  /\ \E i, j \in 1..Len(a) : i < j /\ a[j][1] < a[i][1]
  /\ a # a0
  /\ SameMultiset(a, a0)

\* C18: heapsort_range leaves its range, whatever its length, a permutation of
\* what it held, in non-decreasing order, and touches nothing else.
C18_Heapsort ==
  (call = "heapsort_range" /\ Done) =>
    /\ PermutedWithin(a, a0, heap.first, heap.last)
    /\ IsSorted(Slice(a, heap.first, heap.last))

C18_Witness ==
  /\ call = "heapsort_range" /\ Done
  /\ heap.last - heap.first > INSERTION_THRESHOLD
  /\ HasTies(a0)
  /\ ~IsSorted(a0)
  /\ IsSorted(a)

\* for every index i >= 1 of [first, last): not less(a[(i - 1) / 2], a[i])
IsMaxHeap(s, first, last) ==
  \A i \in 1..(last - first - 1) :
    ~Less(At(s, first + (i - 1) \div 2), At(s, first + i))

\* C19: when heapify returns, to its caller or to heapsort_range, its range is
\* a max-heap and a permutation of what it held.
C19_Heapify ==
  /\ (call = "heapify" /\ Done) =>
       /\ IsMaxHeap(a, heap.first, heap.last)
       /\ PermutedWithin(a, a0, heap.first, heap.last)
  /\ (pc = "heapsort_end") => IsMaxHeap(a, heap.first, heap.last)

C19_Witness ==
  /\ call = "heapify" /\ Done
  /\ heap.last - heap.first = 2
  /\ heap.first = 1
  /\ a # a0

\* C20: insertion_sort leaves its range sorted, a permutation of what it held,
\* with equivalent elements in the order they had at entry (the elements are
\* numbered by their position at entry).
C20_Stable ==
  (call = "insertion_sort" /\ Done) =>
    LET s == Slice(a, ins.first, ins.last)
    IN  /\ PermutedWithin(a, a0, ins.first, ins.last)
        /\ IsSorted(s)
        /\ \A i, j \in 1..Len(s) :
             (i < j /\ Equiv(s[i], s[j])) => s[i][2] < s[j][2]

C20_Witness ==
  /\ call = "insertion_sort" /\ Done
  /\ ins.last - ins.first > INSERTION_THRESHOLD
  /\ HasTies(a0)
  /\ a # a0
  /\ IsSorted(a)

\* for every adjacent pair: not less(s[k], s[k + 1])
NonIncreasing(s) == \A k \in 1..(Len(s) - 1) : ~Less(s[k], s[k + 1])

\* The positions of rei_sort_impl and of the scanner it calls.
ScanLabels ==
  {"impl_entry", "scan_entry", "scan_cmp1", "scan_cmp2", "impl_after_scan", "done"}

\* C21: rei_sort with detect_sorted on a range of length >= 2 that is
\* non-increasing and not non-decreasing never leaves the scanner and the
\* pre-flight (so less is invoked by the scanner only), and returns with
\* a'[i] = a[n - 1 - i], which is non-decreasing.
C21_ReverseFastPath ==
  (/\ call = "rei_sort" /\ detect_sorted /\ Len(a0) >= 2
   /\ NonIncreasing(a0) /\ ~IsSorted(a0)) =>
    /\ pc \in ScanLabels \cup {"thrown"}
    /\ pc \in CmpLabels => pc \in {"scan_cmp1", "scan_cmp2"}
    /\ pc \notin {"done", "impl_after_scan"} => a = a0
    /\ Done => /\ a = Reverse(a0)
               /\ \A k \in 1..Len(a) : a[k] = a0[Len(a0) + 1 - k]
               /\ IsSorted(a)

C21_Witness ==
  /\ call = "rei_sort" /\ detect_sorted /\ Done
  /\ Len(a0) > INSERTION_THRESHOLD
  /\ NonIncreasing(a0) /\ ~IsSorted(a0) /\ HasTies(a0)
  /\ a = Reverse(a0)
  /\ a # a0

\* The positions on the cycle of position k (1-based) under the home indices h.
RECURSIVE Walk(_, _, _)
Walk(h, start, cur) ==
  IF h[cur] + 1 = start THEN {cur} ELSE {cur} \cup Walk(h, start, h[cur] + 1)

\* The positions that are not their own home, and the number of cycles of
\* length >= 2 (counted by their least position).
Displaced(h) == {k \in 1..Len(h) : h[k] # k - 1}

Cycles2(h) ==
  Cardinality({k \in Displaced(h) : \A m \in Walk(h, k, k) : k <= m})

\* C22: the undecoration makes at most n + (number of cycles of length >= 2)
\* element moves, counting the moves into the carry, from slot to slot and out
\* of the carry (when it is over: one per displaced position and one more per
\* cycle), and a position that is its own home keeps its element throughout.
C22_MoveCount ==
  (call = "rei_sort_by_key" /\ pc \in {"undec_outer", "undec_inner", "done"}) =>
    /\ key.moves <= Len(home0) + Cycles2(home0)
    /\ Done => key.moves = Cardinality(Displaced(home0)) + Cycles2(home0)
    /\ \A k \in 1..Len(home0) : home0[k] = k - 1 => range[k] = a0[k]

C22_Witness ==
  /\ call = "rei_sort_by_key" /\ Done
  /\ Len(home0) > INSERTION_THRESHOLD
  /\ Cycles2(home0) >= 2
  /\ Cardinality(Displaced(home0)) < Len(home0)
  /\ \E k \in 1..Len(home0) : Cardinality(Walk(home0, k, k)) >= 3
  /\ key.moves = Cardinality(Displaced(home0)) + Cycles2(home0)

\* C23: median_of_three returns one of its three positions, whose element is
\* a median of the three (of the other two, one is not greater and one is not
\* less), and never invokes less more than three times.
C23_Median ==
  /\ med.calls <= 3
  /\ (call = "median_of_three" /\ Done) =>
       LET x == At(a, med.a)
           y == At(a, med.b)
           z == At(a, med.c)
       IN  /\ a = a0
           /\ \/ med.result = med.a /\ IsMedian(x, y, z)
              \/ med.result = med.b /\ IsMedian(y, x, z)
              \/ med.result = med.c /\ IsMedian(z, x, y)

C23_Witness ==
  /\ call = "median_of_three" /\ Done
  /\ med.calls = 3
  /\ med.a # med.b /\ med.b # med.c /\ med.a # med.c
  /\ Equiv(At(a, med.b), At(a, med.c))
  /\ med.result = med.c

\* The positions of the undecoration and of the return.
UndecLabels == {"undec_outer", "undec_inner", "done"}

\* C24: during rei_sort_by_key the caller's range is as at entry in every
\* state outside the undecoration: when the key function or the ordering is
\* invoked, and when either of them has failed; the undecoration, the only
\* phase that writes to the range, invokes neither.
C24_RangeIntact ==
  (call = "rei_sort_by_key") =>
    /\ pc \notin UndecLabels => range = a0
    /\ pc \in UndecLabels => /\ pc \notin CmpLabels \cup {"key_call"}
                             /\ \A k \in 1..Len(keyCalls) : keyCalls[k] = 1

C24_Witness ==
  /\ call = "rei_sort_by_key"
  /\ pc = "thrown"
  /\ Len(range) >= 3
  /\ Len(a) = Len(range)
  /\ \E k \in 1..Len(a) : a[k] = Moved
  /\ range = a0

\* The introsort driver is waiting for partition_3way, heapsort_range or
\* insertion_sort to return.
InDriver ==
  \E k \in 1..Len(ret) : ret[k] \in {"intro_after_part", "intro_finish", "intro_outer"}

\* [lo1, hi1) and [lo2, hi2) share no position.
Apart(lo1, hi1, lo2, hi2) == hi1 <= lo2 \/ hi2 <= lo1 \/ lo1 >= hi1 \/ lo2 >= hi2

\* C25: the ranges of the frames on the work stack and the range [lo, hi) the
\* driver is processing are pairwise disjoint, and every position that
\* partition_3way, heapsort_range or insertion_sort reads or writes for the
\* driver lies in [lo, hi).
C25_Disjoint ==
  /\ \A j, k \in 1..Len(stack) :
       j # k => Apart(stack[j].first, stack[j].last, stack[k].first, stack[k].last)
  /\ \A k \in 1..Len(stack) :
       Apart(stack[k].first, stack[k].last, intro.lo, intro.hi)
  /\ InDriver => \A p \in Touched : intro.lo <= p /\ p < intro.hi

C25_Witness ==
  /\ call = "rei_sort"
  /\ pc = "part_cmp2"
  /\ InDriver
  /\ Len(stack) >= 2
  /\ part.gt = intro.hi - 1
  /\ intro.hi < Len(a)
  /\ stack[Len(stack)].first = intro.hi + 1
  /\ Less(part.pivot, At(a, part.i))

\* The thread is at a Python-level operation: a read or write of a list item
\* (and the type tests and casts that go with it), a call of the key function,
\* a comparison through __lt__ inside the comparator.
PyOp ==
  \/ pc \in {"pl_entry", "pl_extract", "pl_write",
             "pk_entry", "pk_decorate", "pk_write"}
  \/ py.phase = "in_lambda"

\* C26: the thread holds the GIL at every Python-level operation of the
\* wrapper, on the int, float and str paths, the key path and the fallback.
C26_GilHeld == PyOp => py.gil

=============================================================================
